---- MODULE Spec2Model ----
(***************************************************************************)
(* Model of albumentations/core/transforms_interface.py: the transform     *)
(* application gate, parameter generation, per-target dispatch with        *)
(* aliasing and target dependencies, the deterministic record / replay     *)
(* state machine and the reverse path of BasicTransform, with the          *)
(* DualTransform / ImageOnlyTransform / NoOp capability tables.            *)
(***************************************************************************)
EXTENDS Integers, Sequences, FiniteSets, TLC

VARIABLES
    self,        \* self[i]: the fields of the transform instance with id(self) = i
    container,   \* the caller-owned replay container: id -> recorded mapping
    last         \* observation of the most recent operation (inputs, outcome)

vars == <<self, container, last>>

---------------------------------------------------------------------------
(* Bounds *)

\* p and the uniform draw are counted in units of 1/Scale: p in 0..Scale,
\* a draw from [0,1) in 0..Scale-1
Scale == 2
\* values a subclass' get_params may sample: 0..MaxGen
MaxGen == 1
\* image shapes are (r, MaxDim + 1 - r) for r in 1..MaxDim
MaxDim == 2

\* the identities id(self) of the transform instances
Inst == {1, 2}

---------------------------------------------------------------------------
(* Values of a data bundle *)

NoneV == [t |-> "None"]
Arr(r, c, n) == [t |-> "arr", rows |-> r, cols |-> c, id |-> n]
\* a list of bounding-box or keypoint tuples, and a list of arrays (masks)
ListV(s) == [t |-> "list", items |-> s]
ArrList(s) == [t |-> "arrs", items |-> s]
\* the replay container is a mutable mapping passed by reference
ContainerRef == [t |-> "container"]
\* the value computed by a concrete handler whose math is outside this file
Out(fn, arg, prm) == [t |-> "out", fn |-> fn, arg |-> arg, params |-> prm]

(* Python dicts with string keys *)
EmptyMap == [k \in {} |-> 0]
Put(m, k, v) == [kk \in DOMAIN m \cup {k} |-> IF kk = k THEN v ELSE m[kk]]
\* dict(a, **b) / a.update(b): entries of b take precedence
Merge(a, b) == [kk \in DOMAIN a \cup DOMAIN b |-> IF kk \in DOMAIN b THEN b[kk] ELSE a[kk]]
\* params is None
NoneP == [None |-> TRUE]

(* kwargs: an insertion-ordered mapping, a sequence of key/value pairs *)
Keys(kw) == {kw[n].k : n \in DOMAIN kw}
Get(kw, key) == kw[CHOOSE n \in DOMAIN kw : kw[n].k = key].v

\* cv2.INTER_NEAREST
INTER_NEAREST == 0

---------------------------------------------------------------------------
(* Classes.  NoOp is the class of the file; DualSub, ImageOnlySub and      *)
(* DualSubTargets stand for concrete transforms deriving DualTransform or  *)
(* ImageOnlyTransform that override apply and get_params only              *)
(* (DualSubTargets also declares targets_as_params).  DualSubGeom stands   *)
(* for an invertible geometric transform: it also overrides the per-item   *)
(* transforms of boxes and keypoints and the reverse handlers.  DualSubDeps *)
(* stands for a transform that declares a target_dependence table.         *)

Classes == {"NoOp", "DualSub", "ImageOnlySub", "DualSubTargets"}
DualClasses == {"NoOp", "DualSub", "DualSubTargets", "DualSubGeom", "DualSubDeps"}

\* the capability table: kind -> forward handler
targets(c) ==
    IF c \in DualClasses
    THEN [image |-> "apply", mask |-> "apply_to_mask", masks |-> "apply_to_masks",
          bboxes |-> "apply_to_bboxes", keypoints |-> "apply_to_keypoints"]
    ELSE [image |-> "apply"]

\* BasicTransform.targets_as_params, overridden by DualSubTargets
targets_as_params(c) == IF c = "DualSubTargets" THEN <<"mask">> ELSE <<>>

\* the reverse capability table: kind -> reverse handler
targets_reverse(c) ==
    IF c \in DualClasses
    THEN [image |-> "reverse_image", mask |-> "reverse_mask", masks |-> "reverse_masks",
          bboxes |-> "reverse_bboxes", keypoints |-> "reverse_keypoints"]
    ELSE [image |-> "reverse_image"]

\* BasicTransform.target_dependence, overridden by DualSubDeps: the mask
\* handler is handed the image of the call
target_dependence(c) == IF c = "DualSubDeps" THEN [mask |-> <<"image">>] ELSE EmptyMap

\* BasicTransform.get_params; a subclass samples a value g
get_params(c, g) == IF c = "NoOp" THEN EmptyMap ELSE [a |-> g]

\* get_params_dependent_on_targets of DualSubTargets: computed from the mask
ParamsOfTargets(tp) ==
    [a |-> IF tp["mask"].t = "arr" THEN 10 + tp["mask"].rows ELSE 10]

get_params_dependent_on_targets(c, tp) ==
    IF c = "DualSubTargets"
    THEN [status |-> "ok", val |-> ParamsOfTargets(tp)]
    ELSE [status |-> "NotImplementedError", val |-> EmptyMap]

get_reverse_args(c, kw) == EmptyMap

\* fixed instance settings found by hasattr in update_params: the concrete
\* subclasses have an interpolation attribute (cv2.INTER_LINEAR), NoOp has none
HasInterpolation(c) == c # "NoOp"
interpolation(c) == 1

---------------------------------------------------------------------------
(* Handlers.  Each returns [status, val]; status is "ok" or the exception. *)

Ok(v) == [status |-> "ok", val |-> v]
Raise(e) == [status |-> e, val |-> NoneV]

\* BasicTransform.apply raises; NoOp.apply returns img; a concrete subclass
\* computes a value from img and the parameters it is handed
apply(c, img, prm) ==
    IF c = "NoOp" THEN Ok(img) ELSE Ok(Out("apply", img, prm))

\* the mask is transformed by apply with nearest-neighbour interpolation
MaskParams(prm) ==
    [k \in DOMAIN prm |-> IF k = "interpolation" THEN INTER_NEAREST ELSE prm[k]]

apply_to_mask(c, img, prm) ==
    IF c = "NoOp" THEN Ok(img) ELSE apply(c, img, MaskParams(prm))

apply_to_masks(c, masks, prm) ==
    LET rs == [n \in DOMAIN masks.items |-> apply_to_mask(c, masks.items[n], prm)]
    IN  IF \E n \in DOMAIN rs : rs[n].status # "ok"
        THEN Raise(rs[CHOOSE n \in DOMAIN rs : rs[n].status # "ok"].status)
        ELSE Ok(ArrList([n \in DOMAIN rs |-> rs[n].val]))

\* the first four fields of a tuple, and the fields after them
Head4(tup) == SubSeq(tup, 1, IF Len(tup) < 4 THEN Len(tup) ELSE 4)
Tail4(tup) == SubSeq(tup, 5, Len(tup))

\* the four coordinates a concrete per-item transform computes from the
\* tuple and the parameters it is handed
Coords(fn, tup, prm) ==
    [n \in 1..4 |-> [t |-> "coord", fn |-> fn, n |-> n, arg |-> tup, params |-> prm]]

\* a per-box transform that is the identity in every class
apply_to_bbox_default(c, bbox, prm) == Ok(bbox)

apply_to_bbox(c, bbox, prm) ==
    IF c = "NoOp" THEN Ok(bbox)
    ELSE IF c = "DualSubGeom" THEN Ok(Coords("apply_to_bbox", bbox, prm))
    ELSE Raise("NotImplementedError")

apply_to_keypoint(c, keypoint, prm) ==
    IF c = "NoOp" THEN Ok(keypoint)
    ELSE IF c = "DualSubGeom" THEN Ok(Coords("apply_to_keypoint", keypoint, prm))
    ELSE Raise("NotImplementedError")

apply_to_bboxes(c, bboxes, prm) ==
    LET rs == [n \in DOMAIN bboxes.items |-> apply_to_bbox(c, Head4(bboxes.items[n]), prm)]
    IN  IF \E n \in DOMAIN rs : rs[n].status # "ok"
        THEN Raise("NotImplementedError")
        ELSE Ok(ListV([n \in DOMAIN rs |-> rs[n].val \o Tail4(bboxes.items[n])]))

apply_to_keypoints(c, keypoints, prm) ==
    LET rs == [n \in DOMAIN keypoints.items |->
                  apply_to_keypoint(c, Head4(keypoints.items[n]), prm)]
    IN  IF \E n \in DOMAIN rs : rs[n].status # "ok"
        THEN Raise("NotImplementedError")
        ELSE Ok(ListV([n \in DOMAIN rs |-> rs[n].val \o Tail4(keypoints.items[n])]))

(* Reverse handlers.  NoOp overrides none of them. *)

\* BasicTransform.reverse_image raises; an invertible subclass computes a value
reverse_image(c, img, prm) ==
    IF c = "DualSubGeom" THEN Ok(Out("reverse_image", img, prm))
    ELSE Raise("NotImplementedError")

reverse_mask(c, mask, prm) == reverse_image(c, mask, MaskParams(prm))

\* a reverse of a list of masks that maps each mask through reverse_mask
reverse_masks_by_reverse_mask(c, masks, prm) ==
    LET rs == [n \in DOMAIN masks.items |-> reverse_mask(c, masks.items[n], prm)]
    IN  IF \E n \in DOMAIN rs : rs[n].status # "ok"
        THEN Raise(rs[CHOOSE n \in DOMAIN rs : rs[n].status # "ok"].status)
        ELSE Ok(ArrList([n \in DOMAIN rs |-> rs[n].val]))

\* reverse_masks: [self.apply_to_mask(mask, **params) for mask in masks]
reverse_masks(c, masks, prm) ==
    LET rs == [n \in DOMAIN masks.items |-> apply_to_mask(c, masks.items[n], prm)]
    IN  IF \E n \in DOMAIN rs : rs[n].status # "ok"
        THEN Raise(rs[CHOOSE n \in DOMAIN rs : rs[n].status # "ok"].status)
        ELSE Ok(ArrList([n \in DOMAIN rs |-> rs[n].val]))

reverse_bbox(c, bbox, prm) ==
    IF c = "DualSubGeom" THEN Ok(Coords("reverse_bbox", bbox, prm))
    ELSE Raise("NotImplementedError")

reverse_keypoint(c, keypoint, prm) ==
    IF c = "DualSubGeom" THEN Ok(Coords("reverse_keypoint", keypoint, prm))
    ELSE Raise("NotImplementedError")

reverse_bboxes(c, bboxes, prm) ==
    LET rs == [n \in DOMAIN bboxes.items |-> reverse_bbox(c, Head4(bboxes.items[n]), prm)]
    IN  IF \E n \in DOMAIN rs : rs[n].status # "ok"
        THEN Raise("NotImplementedError")
        ELSE Ok(ListV([n \in DOMAIN rs |-> rs[n].val \o Tail4(bboxes.items[n])]))

\* a reverse of keypoints that hands the per-item transform the whole tuple
reverse_keypoints_whole(c, keypoints, prm) ==
    LET rs == [n \in DOMAIN keypoints.items |->
                  reverse_keypoint(c, keypoints.items[n], prm)]
    IN  IF \E n \in DOMAIN rs : rs[n].status # "ok"
        THEN Raise("NotImplementedError")
        ELSE Ok(ListV([n \in DOMAIN rs |-> rs[n].val \o Tail4(keypoints.items[n])]))

reverse_keypoints(c, keypoints, prm) ==
    LET rs == [n \in DOMAIN keypoints.items |->
                  reverse_keypoint(c, Head4(keypoints.items[n]), prm)]
    IN  IF \E n \in DOMAIN rs : rs[n].status # "ok"
        THEN Raise("NotImplementedError")
        ELSE Ok(ListV([n \in DOMAIN rs |-> rs[n].val \o Tail4(keypoints.items[n])]))

\* calling the function object returned by _get_target_function or
\* _get_target_reverse_function
Invoke(c, fn, arg, prm) ==
    CASE fn = "apply"              -> apply(c, arg, prm)
      [] fn = "apply_to_mask"      -> apply_to_mask(c, arg, prm)
      [] fn = "apply_to_masks"     -> apply_to_masks(c, arg, prm)
      [] fn = "apply_to_bboxes"    -> apply_to_bboxes(c, arg, prm)
      [] fn = "apply_to_keypoints" -> apply_to_keypoints(c, arg, prm)
      [] fn = "reverse_image"      -> reverse_image(c, arg, prm)
      [] fn = "reverse_mask"       -> reverse_mask(c, arg, prm)
      [] fn = "reverse_masks"      -> reverse_masks(c, arg, prm)
      [] fn = "reverse_bboxes"     -> reverse_bboxes(c, arg, prm)
      [] fn = "reverse_keypoints"  -> reverse_keypoints(c, arg, prm)
      [] OTHER                     -> Ok(arg)

---------------------------------------------------------------------------
(* Dispatch *)

\* a resolver that ignores the alias table
TransformKeyUnaliased(s, key) == key

\* the forward handler of a key: alias table first, then the capability
\* table, the identity lambda when the kind is not in the table
TransformKey(s, key) ==
    IF key \in DOMAIN s.additional_targets THEN s.additional_targets[key] ELSE key

_get_target_function(s, key) ==
    LET transform_key == TransformKey(s, key)
    IN  IF transform_key \in DOMAIN targets(s.cls)
        THEN targets(s.cls)[transform_key]
        ELSE "identity"

\* an update_params that keeps the cols and rows the mapping already holds
update_params_keep_geometry(s, prm, kw) ==
    LET p1 == IF HasInterpolation(s.cls)
              THEN Put(prm, "interpolation", interpolation(s.cls)) ELSE prm
    IN  IF "image" \notin Keys(kw)
        THEN [status |-> "KeyError", params |-> p1]
        ELSE IF Get(kw, "image").t # "arr"
        THEN [status |-> "AttributeError", params |-> p1]
        ELSE [status |-> "ok",
              params |-> Merge([cols |-> Get(kw, "image").cols,
                                rows |-> Get(kw, "image").rows], p1)]

\* update_params mutates the mapping it is given: the fixed settings first,
\* then cols and rows of kwargs["image"]
update_params(s, prm, kw) ==
    LET p1 == IF HasInterpolation(s.cls)
              THEN Put(prm, "interpolation", interpolation(s.cls)) ELSE prm
    IN  IF "image" \notin Keys(kw)
        THEN [status |-> "KeyError", params |-> p1]
        ELSE IF Get(kw, "image").t # "arr"
        THEN [status |-> "AttributeError", params |-> p1]
        ELSE [status |-> "ok",
              params |-> Merge(p1, [cols |-> Get(kw, "image").cols,
                                    rows |-> Get(kw, "image").rows])]

\* the names a key depends on, looked up by the key as passed
DependenciesOf(s, key) ==
    IF key \in DOMAIN target_dependence(s.cls) THEN target_dependence(s.cls)[key] ELSE <<>>

\* the loop of apply_with_params over kwargs.items(), from position n on
RECURSIVE DispatchFrom(_, _, _, _, _, _)
DispatchFrom(s, prm, kw, n, res, calls) ==
    IF n > Len(kw)
    THEN [status |-> "ok", res |-> res, calls |-> calls]
    ELSE
      LET key == kw[n].k
          arg == kw[n].v
      IN  IF arg = NoneV
          THEN DispatchFrom(s, prm, kw, n + 1, Append(res, [k |-> key, v |-> NoneV]), calls)
          ELSE
            LET target_function == _get_target_function(s, key)
                deps == DependenciesOf(s, key)
                missing == \E d \in DOMAIN deps : deps[d] \notin Keys(kw)
                target_dependencies ==
                    [name \in {deps[d] : d \in DOMAIN deps} \cap Keys(kw) |-> Get(kw, name)]
                merged == Merge(prm, target_dependencies)
                r == Invoke(s.cls, target_function, arg, merged)
                call == [key |-> key, fn |-> target_function, arg |-> arg, params |-> merged]
            IN  IF missing
                THEN [status |-> "KeyError", res |-> <<>>, calls |-> calls]
                ELSE IF r.status # "ok"
                THEN [status |-> r.status, res |-> <<>>, calls |-> Append(calls, call)]
                ELSE DispatchFrom(s, prm, kw, n + 1,
                                  Append(res, [k |-> key, v |-> r.val]), Append(calls, call))

\* the reverse handler of a key: alias table first, then the reverse
\* capability table, the identity lambda when the kind is not in the table
_get_target_reverse_function(s, key) ==
    LET transform_key == TransformKey(s, key)
    IN  IF transform_key \in DOMAIN targets_reverse(s.cls)
        THEN targets_reverse(s.cls)[transform_key]
        ELSE "identity"

\* the loop of reverse over data.items(), from position n on; the dependency
\* values are read from params, and dict(**a, **b) raises TypeError when a
\* name is in both
RECURSIVE ReverseFrom(_, _, _, _, _, _, _)
ReverseFrom(s, reverse_params, params, data, n, res, calls) ==
    IF n > Len(data)
    THEN [status |-> "ok", res |-> res, calls |-> calls]
    ELSE
      LET key == data[n].k
          arg == data[n].v
      IN  IF arg = NoneV
          THEN ReverseFrom(s, reverse_params, params, data, n + 1,
                           Append(res, [k |-> key, v |-> NoneV]), calls)
          ELSE
            LET target_function == _get_target_reverse_function(s, key)
                deps == DependenciesOf(s, key)
                names == {deps[d] : d \in DOMAIN deps}
                missing == ~(names \subseteq DOMAIN params)
                target_dependencies == [name \in names \cap DOMAIN params |-> params[name]]
                merged == Merge(reverse_params, target_dependencies)
                r == Invoke(s.cls, target_function, arg, merged)
                call == [key |-> key, fn |-> target_function, arg |-> arg, params |-> merged]
            IN  IF missing
                THEN [status |-> "KeyError", res |-> <<>>, calls |-> calls]
                ELSE IF names \cap DOMAIN reverse_params # {}
                THEN [status |-> "TypeError", res |-> <<>>, calls |-> calls]
                ELSE IF r.status # "ok"
                THEN [status |-> r.status, res |-> <<>>, calls |-> Append(calls, call)]
                ELSE ReverseFrom(s, reverse_params, params, data, n + 1,
                                 Append(res, [k |-> key, v |-> r.val]), Append(calls, call))

\* reverse(data, params): the reverse arguments are params["params"][save_key]
reverse(s, data, params) ==
    IF "params" \notin DOMAIN params
    THEN [status |-> "KeyError", res |-> <<>>, calls |-> <<>>]
    ELSE IF s.save_key \notin DOMAIN params["params"]
    THEN [status |-> "KeyError", res |-> <<>>, calls |-> <<>>]
    ELSE ReverseFrom(s, params["params"][s.save_key], params, data, 1, <<>>, <<>>)

\* a dispatcher that leaves the None-valued keys out of its result
apply_with_params_skip_none(s, prm, kw) ==
    IF prm = NoneP
    THEN [status |-> "ok", res |-> kw, calls |-> <<>>, params |-> prm]
    ELSE
      LET up == update_params(s, prm, kw)
          present == SelectSeq(kw, LAMBDA it : it.v # NoneV)
          d == DispatchFrom(s, up.params, present, 1, <<>>, <<>>)
      IN  IF up.status # "ok"
          THEN [status |-> up.status, res |-> <<>>, calls |-> <<>>, params |-> up.params]
          ELSE [status |-> d.status, res |-> d.res, calls |-> d.calls, params |-> up.params]

\* apply_with_params: [status, res, calls, params], params being the mapping
\* object it was given as update_params left it
apply_with_params(s, prm, kw) ==
    IF prm = NoneP
    THEN [status |-> "ok", res |-> kw, calls |-> <<>>, params |-> prm]
    ELSE
      LET up == update_params(s, prm, kw)
          d == DispatchFrom(s, up.params, kw, 1, <<>>, <<>>)
      IN  IF up.status # "ok"
          THEN [status |-> up.status, res |-> <<>>, calls |-> <<>>, params |-> up.params]
          ELSE [status |-> d.status, res |-> d.res, calls |-> d.calls, params |-> up.params]

---------------------------------------------------------------------------
(* BasicTransform.__call__ *)

\* a check of the positional arguments that a replaying instance skips
RejectsArgsOutsideReplay(s, args) == args /\ ~s.replay_mode

\* if args: raise KeyError, the first statement of __call__
RejectsArgs(s, args) == args

\* a gate that looks at the overrides first and draws only without one
DrawsWithoutOverride(s, force_apply) == ~(s.always_apply \/ force_apply)

\* whether evaluating the gate calls random.random(): it is the first operand
\* of the or, so it is evaluated before either override is looked at
Draws(s, force_apply) == TRUE

\* a gate that also fires when the draw equals p
GateInclusive(s, force_apply, draw) == (draw <= s.p) \/ s.always_apply \/ force_apply

\* the gate: (random.random() < self.p) or self.always_apply or force_apply
Gate(s, force_apply, draw) == (draw < s.p) \/ s.always_apply \/ force_apply

\* a gate evaluated before the replay mode is looked at
ReachesGateInReplay(s, args) == ~args

\* control reaches the gate: no positional argument, and not in replay mode
ReachesGate(s, args) == ~args /\ ~s.replay_mode

\* a replaying instance that dispatches whether or not it was applied,
\* and one that dispatches with fresh parameters instead of the restored ones
ReplayAppliedAlways(s) == TRUE
ReplayParamsFresh(s) == EmptyMap

\* in replay mode: whether the call dispatches, and with which parameters
ReplayApplied(s) == s.applied_in_replay
ReplayParams(s) == s.params

\* a generator that looks for the missing keys only after it has called
\* get_params_dependent_on_targets
GenerateParamsLateCheck(s, kw, g) ==
    LET tap == targets_as_params(s.cls)
        names == {tap[n] : n \in DOMAIN tap}
        base == get_params(s.cls, g)
        present == names \subseteq Keys(kw)
        dep == get_params_dependent_on_targets(s.cls,
                   [k \in names |-> IF present THEN Get(kw, k) ELSE NoneV])
    IN  IF tap = <<>>
        THEN [status |-> "ok", params |-> base, dep_called |-> FALSE]
        ELSE IF ~present
        THEN [status |-> "AssertionError", params |-> base, dep_called |-> TRUE]
        ELSE IF dep.status # "ok"
        THEN [status |-> dep.status, params |-> base, dep_called |-> TRUE]
        ELSE [status |-> "ok", params |-> Merge(base, dep.val), dep_called |-> TRUE]

\* the parameters of one application: get_params(), updated with the
\* target-dependent parameters when targets_as_params is not empty
GenerateParams(s, kw, g) ==
    LET tap == targets_as_params(s.cls)
        names == {tap[n] : n \in DOMAIN tap}
        base == get_params(s.cls, g)
        dep == get_params_dependent_on_targets(s.cls, [k \in names |-> Get(kw, k)])
    IN  IF tap = <<>>
        THEN [status |-> "ok", params |-> base, dep_called |-> FALSE]
        ELSE IF ~(names \subseteq Keys(kw))
        THEN [status |-> "AssertionError", params |-> base, dep_called |-> FALSE]
        ELSE IF dep.status # "ok"
        THEN [status |-> dep.status, params |-> base, dep_called |-> TRUE]
        ELSE [status |-> "ok", params |-> Merge(base, dep.val), dep_called |-> TRUE]

\* a record that shares the mapping update_params writes to
deepcopyAliased(prm, updated) == updated

\* deepcopy(params), taken before apply_with_params: the copy holds what params
\* held then, whatever update_params makes of params afterwards
deepcopy(prm, updated) == prm

\* the mapping stored under id(self):
\* dict(**deepcopy(params), **{self.save_key: self.get_reverse_args(**kwargs)})
Record(s, copy, kw) == Put(copy, s.save_key, get_reverse_args(s.cls, kw))

\* a store that replaces the container's contents by the one record
StoreReplace(cont, i, rec) == [j \in {i} |-> rec]

\* kwargs[self.save_key][id(self)] = record
Store(cont, i, rec) == [j \in DOMAIN cont \cup {i} |-> IF j = i THEN rec ELSE cont[j]]

\* what a call did that returned kwargs at once
Quiet(s, cont, kw) ==
    [status |-> "ok", out |-> kw, calls |-> <<>>, drawn |-> FALSE,
     gen_called |-> FALSE, dep_called |-> FALSE, generated |-> NoneP, stored |-> FALSE,
     dispatched |-> FALSE, params |-> s.params, container |-> cont]

\* the outcome of self(*args, force_apply=force_apply, **kw) for the instance
\* with fields s and identity i, cont being the contents of the container the
\* caller passes under save_key (when has_container), draw the value of
\* random.random() and g the value get_params samples
CallOutcome(s, i, cont, args, kw, has_container, force_apply, draw, g) ==
    LET q == Quiet(s, cont, kw)
        replayed == apply_with_params(s, ReplayParams(s), kw)
        gen == GenerateParams(s, kw, g)
        fresh == apply_with_params(s, gen.params, kw)
        afterGate == [q EXCEPT !.drawn = Draws(s, force_apply), !.gen_called = TRUE,
                               !.dep_called = gen.dep_called]
        afterGen == [afterGate EXCEPT !.generated = gen.params]
        afterStore ==
            IF s.deterministic
            THEN [afterGen EXCEPT !.stored = TRUE,
                      !.container = Store(cont, i,
                                          Record(s, deepcopy(gen.params, fresh.params), kw))]
            ELSE afterGen
    IN  IF RejectsArgs(s, args)
        THEN [q EXCEPT !.status = "KeyError", !.out = <<>>]
        ELSE IF ~ReachesGate(s, args)
        THEN IF ReplayApplied(s)
             THEN [q EXCEPT !.status = replayed.status, !.out = replayed.res,
                            !.calls = replayed.calls, !.params = replayed.params,
                            !.dispatched = TRUE]
             ELSE q
        ELSE IF ~Gate(s, force_apply, draw)
        THEN [q EXCEPT !.drawn = Draws(s, force_apply)]
        ELSE IF gen.status # "ok"
        THEN [afterGate EXCEPT !.status = gen.status, !.out = <<>>]
        ELSE IF s.deterministic /\ ~has_container
        THEN [afterGen EXCEPT !.status = "KeyError", !.out = <<>>]
        ELSE [afterStore EXCEPT !.status = fresh.status, !.out = fresh.res,
                                !.calls = fresh.calls, !.dispatched = TRUE]

---------------------------------------------------------------------------
(* Inputs *)

Image(r) == Arr(r, MaxDim + 1 - r, r)
Mask == Arr(MaxDim, 1, 0)
Item(k, v) == [k |-> k, v |-> v]

Bundles ==
    {<<Item("image", Image(r))>> : r \in 1..MaxDim}
    \cup {<<Item("image2", Image(MaxDim)), Item("image", Image(1)), Item("mask", Mask)>>,
          <<Item("image", Image(1)), Item("mask", NoneV), Item("extra", Mask)>>,
          <<Item("image", Image(1)), Item("bboxes", ListV(<< <<1, 2, 3, 4, 7>> >>))>>,
          <<Item("mask", Mask)>>}

AliasTables == {EmptyMap, [image2 |-> "mask"]}
SaveKeys == {"replay", "params"}

\* what a caller passes: the data, with or without the replay container
Inputs == (Bundles \X {TRUE}) \cup ({<<Item("image", Image(1))>>} \X {FALSE})

\* the kwargs of a call: the data, and the container under save_key
Kwargs(s, data, has_container) ==
    IF has_container THEN Append(data, Item(s.save_key, ContainerRef)) ELSE data

---------------------------------------------------------------------------
(* State machine *)

\* no operation is in progress and no result is pending
Idle == [op |-> "none"]

\* the instance as __init__ leaves it
Constructed(c, p, always_apply) ==
    [cls |-> c, p |-> p, always_apply |-> always_apply,
     additional_targets |-> EmptyMap, deterministic |-> FALSE, save_key |-> "replay",
     params |-> EmptyMap, replay_mode |-> FALSE, applied_in_replay |-> FALSE]

Init ==
    /\ \E c \in Classes, p \in 0..Scale, a \in BOOLEAN :
          self = [i \in Inst |-> Constructed(c, p, a)]
    /\ container = EmptyMap
    /\ last = Idle

\* self(*args, force_apply=..., **kwargs), the caller choosing the input in In
CallOn(i, In) ==
    /\ last = Idle
    /\ \E args \in BOOLEAN, in \in In,
          force_apply \in BOOLEAN, draw \in 0..(Scale - 1), g \in 0..MaxGen :
        \E r \in {CallOutcome(self[i], i, container, args, Kwargs(self[i], in[1], in[2]),
                                in[2], force_apply, draw, g)} :
        LET has_container == in[2]
            kw == Kwargs(self[i], in[1], has_container)
        IN  /\ self' = [self EXCEPT ![i].params = r.params]
            /\ container' = r.container
            /\ last' = [op |-> "call", inst |-> i, pre |-> self[i], cbefore |-> container,
                        args |-> args, kw |-> kw, has_container |-> has_container,
                        force_apply |-> force_apply,
                        draw |-> IF r.drawn THEN draw ELSE -1,
                        status |-> r.status, out |-> r.out, calls |-> r.calls,
                        drawn |-> r.drawn, gen_called |-> r.gen_called,
                        dep_called |-> r.dep_called, generated |-> r.generated,
                        stored |-> r.stored, dispatched |-> r.dispatched]

Call(i) == CallOn(i, Inputs)

\* self.apply_with_params(params, **kwargs), called directly
ApplyWithParams(i) ==
    /\ last = Idle
    /\ \E prm \in {NoneP, [a |-> 0]}, data \in Bundles :
        \E r \in {apply_with_params(self[i], prm, data)} :
            /\ last' = [op |-> "apply_with_params", inst |-> i, kw |-> data, prm |-> prm,
                        status |-> r.status, out |-> r.res, calls |-> r.calls]
            /\ UNCHANGED <<self, container>>

\* a set_deterministic that accepts every key
ReservedKeyAccepted(key) == FALSE

\* assert save_key != "params"
ReservedKey(key) == key = "params"

\* self.set_deterministic(flag, save_key), the caller choosing the key in Ks
SetDeterministicWith(i, Ks) ==
    /\ last = Idle
    /\ \E flag \in BOOLEAN, key \in Ks :
        IF ReservedKey(key)
        THEN /\ last' = [op |-> "set_deterministic", inst |-> i, pre |-> self[i],
                         flag |-> flag, key |-> key, status |-> "AssertionError"]
             /\ UNCHANGED <<self, container>>
        ELSE /\ self' = [self EXCEPT ![i].deterministic = flag, ![i].save_key = key]
             /\ last' = [op |-> "set_deterministic", inst |-> i, pre |-> self[i],
                         flag |-> flag, key |-> key, status |-> "ok"]
             /\ UNCHANGED container

SetDeterministic(i) == SetDeterministicWith(i, SaveKeys)

\* self.add_targets(additional_targets)
AddTargets(i) ==
    /\ last = Idle
    /\ \E t \in AliasTables :
        /\ self' = [self EXCEPT ![i].additional_targets = t]
        /\ last' = [op |-> "add_targets", inst |-> i, status |-> "ok"]
        /\ UNCHANGED container

\* the composition layer restores an instance for replay from the container:
\* params and applied_in_replay from the record under its identity
Restore(i) ==
    /\ last = Idle
    /\ self' = [self EXCEPT
                  ![i].params = IF i \in DOMAIN container THEN container[i] ELSE NoneP,
                  ![i].applied_in_replay = (i \in DOMAIN container),
                  ![i].replay_mode = TRUE]
    /\ last' = [op |-> "restore", inst |-> i, status |-> "ok"]
    /\ UNCHANGED container

\* the composition layer leaves replay mode
LeaveReplay(i) ==
    /\ last = Idle
    /\ self[i].replay_mode
    /\ self' = [self EXCEPT ![i].replay_mode = FALSE]
    /\ last' = [op |-> "leave_replay", inst |-> i, status |-> "ok"]
    /\ UNCHANGED container

\* the caller starts a pipeline run with a fresh container
NewContainer ==
    /\ last = Idle
    /\ container # EmptyMap
    /\ container' = EmptyMap
    /\ last' = [op |-> "new_container", inst |-> 0, status |-> "ok"]
    /\ UNCHANGED self

\* the caller takes the result of the operation
Return ==
    /\ last # Idle
    /\ last' = Idle
    /\ UNCHANGED <<self, container>>

Next ==
    \/ \E i \in {1} : Call(i)
    \/ \E i \in {1} : ApplyWithParams(i)
    \/ \E i \in {1} : SetDeterministic(i)
    \/ \E i \in {1} : AddTargets(i)
    \/ \E i \in {1} : Restore(i)
    \/ \E i \in {1} : LeaveReplay(i)
    \/ NewContainer
    \/ Return

Spec == Init /\ [][Next]_vars

(* Two instances of one class in one pipeline, sharing the replay container *)
SharedInputs ==
    {<<d, TRUE>> : d \in {<<Item("image", Image(1))>>,
                          <<Item("image", Image(1)),
                            Item("bboxes", ListV(<< <<1, 2, 3, 4, 7>> >>))>>}}

NextShared ==
    \/ \E i \in Inst : CallOn(i, SharedInputs)
    \/ \E i \in Inst : SetDeterministic(i)
    \/ NewContainer
    \/ Return

SpecShared == Init /\ [][NextShared]_vars

(* Configuration with several save keys, and calls *)
AllSaveKeys == SaveKeys \cup {"saved"}

NextKeys ==
    \/ \E i \in {1} : SetDeterministicWith(i, AllSaveKeys)
    \/ \E i \in {1} : CallOn(i, SharedInputs)
    \/ NewContainer
    \/ Return

SpecKeys == Init /\ [][NextKeys]_vars

(* A transform with a target_dependence table, with and without aliases *)
DepClasses == {"DualSubDeps", "DualSub"}

DepInputs ==
    {<<d, TRUE>> : d \in {<<Item("image", Image(1)), Item("mask", Mask)>>,
                          <<Item("mask", Mask), Item("image", Image(MaxDim))>>,
                          <<Item("image2", Mask), Item("image", Image(1))>>,
                          <<Item("image", Image(1)), Item("image2", Mask),
                            Item("mask", NoneV)>>}}

InitDeps ==
    /\ \E c \in DepClasses, p \in 0..Scale, a \in BOOLEAN :
          self = [i \in Inst |-> Constructed(c, p, a)]
    /\ container = EmptyMap
    /\ last = Idle

NextDeps ==
    \/ \E i \in {1} : CallOn(i, DepInputs)
    \/ \E i \in {1} : AddTargets(i)
    \/ \E i \in {1} : SetDeterministic(i)
    \/ Return

SpecDeps == InitDeps /\ [][NextDeps]_vars

(* The reverse path and the per-item handlers of boxes and keypoints *)
ReverseClasses == {"NoOp", "DualSub", "ImageOnlySub", "DualSubGeom", "DualSubDeps"}

\* lists of box or keypoint tuples: four coordinates and a payload of 0..2 fields
ItemLists ==
    {<<>>,
     << <<1, 2, 3, 4>> >>,
     << <<1, 2, 3, 4, 7>>, <<5, 6, 7, 8>> >>,
     << <<5, 6, 7, 8, 9, 7>>, <<1, 2, 3, 4, 7>>, <<1, 2, 3, 4, 7>> >>}

ReverseBundles ==
    {<<Item("image", Image(1))>>,
     <<Item("mask", Mask)>>,
     <<Item("masks", ArrList(<<Mask, Image(1)>>)), Item("mask", NoneV)>>,
     <<Item("masks", ArrList(<<>>)), Item("bboxes", ListV(<<>>)),
       Item("keypoints", ListV(<<>>))>>,
     <<Item("bboxes", ListV(<< <<1, 2, 3, 4, 7>>, <<5, 6, 7, 8>> >>))>>,
     <<Item("keypoints", ListV(<< <<5, 6, 7, 8, 9, 7>> >>))>>,
     <<Item("image2", Mask), Item("extra", Mask)>>}

\* the params handed to reverse: the recorded mapping under "params", holding
\* the reverse arguments under save_key, and the dependency values
ReverseParams ==
    {[params |-> [replay |-> EmptyMap]],
     [params |-> [replay |-> [a |-> 1, interpolation |-> 1]], image |-> Image(1)],
     [params |-> [replay |-> [image |-> Image(1)]], image |-> Image(1)],
     [params |-> EmptyMap]}

InitReverse ==
    /\ \E c \in ReverseClasses : self = [i \in Inst |-> Constructed(c, Scale, FALSE)]
    /\ container = EmptyMap
    /\ last = Idle

\* self.reverse(data, params)
Reverse(i) ==
    /\ last = Idle
    /\ \E data \in ReverseBundles, params \in ReverseParams :
        \E r \in {reverse(self[i], data, params)} :
            /\ last' = [op |-> "reverse", inst |-> i, pre |-> self[i], kw |-> data,
                        prm |-> params, status |-> r.status, out |-> r.res,
                        calls |-> r.calls]
            /\ UNCHANGED <<self, container>>

\* one of the list handlers of boxes and keypoints, called directly
ItemHandlers ==
    {"apply_to_bboxes", "apply_to_keypoints", "reverse_bboxes", "reverse_keypoints"}

CallItemHandler(i) ==
    /\ last = Idle
    /\ \E fn \in ItemHandlers, items \in ItemLists, prm \in {EmptyMap, [a |-> 1]} :
        \E r \in {Invoke(self[i].cls, fn, ListV(items), prm)} :
            /\ last' = [op |-> "handler", inst |-> i, pre |-> self[i], fn |-> fn,
                        arg |-> ListV(items), prm |-> prm, status |-> r.status,
                        out |-> r.val]
            /\ UNCHANGED <<self, container>>

NextReverse ==
    \/ \E i \in {1} : Reverse(i)
    \/ \E i \in {1} : CallItemHandler(i)
    \/ \E i \in {1} : AddTargets(i)
    \/ Return

SpecReverse == InitReverse /\ [][NextReverse]_vars

---------------------------------------------------------------------------
(* Properties *)

IsCall == last.op = "call"
\* a call with named data only, outside replay mode
NormalCall == IsCall /\ ~last.args /\ ~last.pre.replay_mode
\* a call with named data only, in replay mode
ReplayCall == IsCall /\ ~last.args /\ last.pre.replay_mode
\* the call got as far as the loop over the keys
LoopReached ==
    /\ IsCall /\ last.dispatched
    /\ "image" \in Keys(last.kw) /\ Get(last.kw, "image").t = "arr"
NonNull(kw) == {n \in DOMAIN kw : kw[n].v # NoneV}
Strip(m, k) == [kk \in DOMAIN m \ {k} |-> m[kk]]

\* C1: a call with named data outside replay mode generates parameters if and
\* only if force_apply or always_apply is true or the draw is below p; a call
\* that does not fire returns its input bundle, invokes no handler and leaves
\* the replay container as it was; with p = 1.0 every call fires; a call that
\* fires and returns has dispatched every non-null key to a handler.
C1_GateDecidesFiring ==
    NormalCall =>
        /\ last.gen_called <=>
              (last.force_apply \/ last.pre.always_apply \/ last.draw < last.pre.p)
        /\ ~last.gen_called =>
              /\ last.status = "ok" /\ last.out = last.kw /\ last.calls = <<>>
              /\ container = last.cbefore
        /\ last.pre.p = Scale => last.gen_called
        /\ (last.gen_called /\ last.status = "ok") =>
              {last.calls[n].key : n \in DOMAIN last.calls}
                  = {last.kw[n].k : n \in NonNull(last.kw)}

\* a deterministic instance with p = 0 and no override is called with a
\* container and does not fire
C1_Witness ==
    /\ NormalCall /\ last.pre.p = 0 /\ ~last.pre.always_apply /\ ~last.force_apply
    /\ last.pre.deterministic /\ last.has_container
    /\ ~last.gen_called /\ last.out = last.kw /\ container = last.cbefore

\* the recorded call behind a replaying call: the same instance, not yet in
\* replay mode and deterministic, called with the same kwargs, sampling g
OriginalCall(g) ==
    CallOutcome([last.pre EXCEPT !.replay_mode = FALSE, !.deterministic = TRUE],
                last.inst, EmptyMap, FALSE, last.kw, TRUE, TRUE, 0, g)

\* the replaying call uses the record of the original call that sampled g
ReplaysRecordOf(g) ==
    /\ ReplayCall /\ last.pre.applied_in_replay /\ last.has_container
    /\ OriginalCall(g).stored /\ OriginalCall(g).status = "ok"
    /\ last.pre.params = OriginalCall(g).container[last.inst]

\* a value with the save_key entry removed from the parameters it was computed from
StripValue(v, k) ==
    IF v.t = "out" THEN [v EXCEPT !.params = Strip(v.params, k)]
    ELSE IF v.t = "arrs"
    THEN [v EXCEPT !.items = [n \in DOMAIN v.items |->
                                 IF v.items[n].t = "out"
                                 THEN [v.items[n] EXCEPT !.params = Strip(v.items[n].params, k)]
                                 ELSE v.items[n]]]
    ELSE v

\* C2 as stated: the replaying call hands every handler the parameter mapping
\* of the original recorded call and returns the same value for every key.
C2_ReplaySameMapping ==
    \A g \in 0..MaxGen :
        ReplaysRecordOf(g) =>
            /\ last.status = "ok"
            /\ last.out = OriginalCall(g).out
            /\ last.calls = OriginalCall(g).calls

\* C2 amended: the replaying call invokes the same handlers on the same
\* arguments in the same order; each handler's parameter mapping is the
\* original call's mapping plus the one entry save_key -> reverse args; the
\* returned values are those of the original call up to that entry.
C2_ReplaySameUpToSaveKey ==
    \A g \in 0..MaxGen :
        ReplaysRecordOf(g) =>
            LET o == OriginalCall(g)
                key == last.pre.save_key
            IN  /\ last.status = "ok"
                /\ Len(last.calls) = Len(o.calls)
                /\ \A n \in DOMAIN last.calls :
                      /\ last.calls[n].key = o.calls[n].key
                      /\ last.calls[n].fn = o.calls[n].fn
                      /\ last.calls[n].arg = o.calls[n].arg
                      /\ key \in DOMAIN last.calls[n].params
                      /\ key \notin DOMAIN o.calls[n].params
                      /\ last.calls[n].params[key] = get_reverse_args(last.pre.cls, last.kw)
                      /\ Strip(last.calls[n].params, key) = o.calls[n].params
                /\ Len(last.out) = Len(o.out)
                /\ \A n \in DOMAIN last.out :
                      /\ last.out[n].k = o.out[n].k
                      /\ StripValue(last.out[n].v, key) = o.out[n].v

\* a restored instance of a concrete subclass replays its record on an image
\* and a mask
C2_Witness ==
    /\ ReplayCall /\ last.pre.cls = "DualSub" /\ last.status = "ok"
    /\ Len(last.calls) >= 3
    /\ \E g \in 0..MaxGen : ReplaysRecordOf(g)

\* C3: a deterministic call whose gate fired, whose parameters were generated
\* and which was given the container stores under its identity the generated
\* parameters (get_params overridden by the target-dependent ones) plus the
\* entry save_key -> reverse args; the frame geometry and the fixed settings
\* handed to the handlers are not in the record.
C3_RecordIsCopyOfGenerated ==
    (NormalCall /\ last.pre.deterministic /\ last.gen_called
        /\ last.generated # NoneP /\ last.has_container) =>
        /\ last.stored
        /\ last.inst \in DOMAIN container
        /\ container[last.inst]
              = Put(last.generated, last.pre.save_key,
                    get_reverse_args(last.pre.cls, last.kw))
        /\ \E g \in 0..MaxGen :
              last.generated =
                  IF last.dep_called
                  THEN Merge(get_params(last.pre.cls, g),
                             ParamsOfTargets([k \in {"mask"} |-> Get(last.kw, "mask")]))
                  ELSE get_params(last.pre.cls, g)
        /\ DOMAIN container[last.inst] \cap {"rows", "cols", "interpolation"} = {}
        /\ \A n \in DOMAIN last.calls :
              /\ {"rows", "cols"} \subseteq DOMAIN last.calls[n].params
              /\ \A k \in DOMAIN last.generated :
                    last.calls[n].params[k] = container[last.inst][k]

\* a deterministic call of a subclass with a fixed interpolation setting
\* fired, stored its record and handed rows, cols and interpolation on
C3_Witness ==
    /\ NormalCall /\ last.pre.deterministic /\ last.stored /\ last.status = "ok"
    /\ last.pre.cls = "DualSubTargets" /\ last.dep_called
    /\ \E n \in DOMAIN last.calls : "interpolation" \in DOMAIN last.calls[n].params
    /\ "a" \in DOMAIN container[last.inst]

\* C4 as stated: a replaying call dispatches exactly when the instance's
\* identity is a key of the container passed with the call.
C4_DispatchIffInContainer ==
    (ReplayCall /\ last.has_container) =>
        (last.dispatched <=> last.inst \in DOMAIN container)

\* C4 amended: a replaying call dispatches, with the instance's params, exactly
\* when the instance's applied_in_replay flag is set, and returns the call data
\* unchanged exactly when it is not; the container passed with the call is
\* neither read nor written.
C4_DispatchIffAppliedInReplay ==
    ReplayCall =>
        /\ last.dispatched <=> last.pre.applied_in_replay
        /\ ~last.pre.applied_in_replay =>
              /\ last.status = "ok" /\ last.out = last.kw /\ last.calls = <<>>
        /\ last.pre.applied_in_replay =>
              \A n \in DOMAIN last.calls :
                  \A k \in DOMAIN last.pre.params \ {"rows", "cols", "interpolation"} :
                      last.calls[n].params[k] = last.pre.params[k]
        /\ container = last.cbefore

\* an instance restored as applied replays although the container passed with
\* the call does not hold its identity
C4_Witness ==
    /\ ReplayCall /\ last.has_container /\ last.pre.applied_in_replay
    /\ last.dispatched /\ last.calls # <<>>
    /\ last.inst \notin DOMAIN container

\* C5: a call in replay mode takes no draw from the random source and invokes
\* neither get_params nor get_params_dependent_on_targets, whatever p,
\* always_apply and force_apply are.
C5_ReplaySkipsGateAndGeneration ==
    ReplayCall =>
        /\ ~last.drawn
        /\ ~last.gen_called
        /\ ~last.dep_called
        /\ last.generated = NoneP

\* a replaying call with force_apply on an always_apply instance with p = 1.0
C5_Witness ==
    /\ ReplayCall /\ last.force_apply /\ last.pre.always_apply /\ last.pre.p = Scale
    /\ last.pre.applied_in_replay /\ last.calls # <<>>
    /\ ~last.drawn /\ ~last.gen_called

\* C6: a call by one instance leaves every other identity's entry of the
\* shared replay container as it was, present or absent; a deterministic call
\* that fires writes the caller's own entry, replacing the one it had.
C6_RecordsKeyedByIdentity ==
    IsCall =>
        /\ \A j \in Inst \ {last.inst} :
              /\ j \in DOMAIN container <=> j \in DOMAIN last.cbefore
              /\ j \in DOMAIN container => container[j] = last.cbefore[j]
        /\ last.stored =>
              /\ last.inst \in DOMAIN container
              /\ container[last.inst]
                    = Put(last.generated, last.pre.save_key,
                          get_reverse_args(last.pre.cls, last.kw))
        /\ ~last.stored => container = last.cbefore

\* two instances of one class have a record each, and a firing call by one of
\* them has just replaced its own record by a different one
C6_Witness ==
    /\ IsCall /\ last.stored
    /\ \E j \in Inst \ {last.inst} :
          /\ j \in DOMAIN container
          /\ self[j].cls = last.pre.cls
          /\ container[j] # container[last.inst]
    /\ last.inst \in DOMAIN last.cbefore
    /\ last.cbefore[last.inst] # container[last.inst]

\* C7 as stated: after a call, in any mode and whether it returned or raised,
\* every field of the instance has the value it had before the call.
C7_CallLeavesInstanceUnchanged ==
    IsCall => self[last.inst] = last.pre

\* the handler the capability table gives a kind, the identity when it has none
HandlerOfKind(c, kind) ==
    IF kind \in DOMAIN targets(c) THEN targets(c)[kind] ELSE "identity"

\* C8: in a firing call, a key registered by add_targets as k -> t is handed
\* to the forward handler the capability table gives t, the one a key named t
\* gets in the same call, and every handler of the call is handed the same
\* generated parameter mapping.
C8_AliasGetsHandlerOfKind ==
    (NormalCall /\ last.gen_called) =>
        /\ \A n \in DOMAIN last.calls :
              LET k == last.calls[n].key
                  alias == last.pre.additional_targets
              IN  /\ k \in DOMAIN alias =>
                        /\ last.calls[n].fn = HandlerOfKind(last.pre.cls, alias[k])
                        /\ \A m \in DOMAIN last.calls :
                              last.calls[m].key = alias[k] =>
                                  /\ last.calls[m].fn = last.calls[n].fn
                                  /\ last.calls[m].params = last.calls[n].params
                  /\ \A kk \in DOMAIN last.generated :
                        last.calls[n].params[kk] = last.generated[kk]
        /\ \A n, m \in DOMAIN last.calls : last.calls[n].params = last.calls[m].params
        /\ last.status = "ok" =>
              \A n \in DOMAIN last.kw :
                  (last.kw[n].k \in DOMAIN last.pre.additional_targets
                      /\ last.kw[n].v # NoneV) =>
                      \E c \in DOMAIN last.calls :
                          /\ last.calls[c].key = last.kw[n].k
                          /\ Ok(last.out[n].v)
                                = Invoke(last.pre.cls,
                                         HandlerOfKind(last.pre.cls,
                                             last.pre.additional_targets[last.kw[n].k]),
                                         last.kw[n].v, last.calls[c].params)

\* image2 is registered as a mask; a firing call with image2 and mask hands
\* both to apply_to_mask
C8_Witness ==
    /\ NormalCall /\ last.gen_called /\ last.status = "ok"
    /\ last.pre.cls = "DualSub"
    /\ "image2" \in DOMAIN last.pre.additional_targets
    /\ \E n, m \in DOMAIN last.calls :
          /\ last.calls[n].key = "image2" /\ last.calls[m].key = "mask"
          /\ last.calls[n].fn = "apply_to_mask" /\ last.calls[m].fn = "apply_to_mask"

\* the kind a key resolves to through the alias table of the called instance
KindOf(key) ==
    IF key \in DOMAIN last.pre.additional_targets
    THEN last.pre.additional_targets[key] ELSE key

\* the keys of the call whose kind is in the capability table, with a
\* non-empty list of boxes or keypoints, in a class that does not override
\* the per-item transform
Unimplemented ==
    {n \in NonNull(last.kw) :
        /\ KindOf(last.kw[n].k) \in DOMAIN targets(last.pre.cls) \cap {"bboxes", "keypoints"}
        /\ last.pre.cls # "NoOp"
        /\ last.kw[n].v.t = "list" /\ last.kw[n].v.items # <<>>}

\* C9: in a dispatch of a firing call, a non-null key whose kind is not in the
\* capability table is handed to the identity handler and comes back unchanged,
\* and raises nothing; a key whose kind is in the table but whose per-item
\* handler is not overridden makes the call raise NotImplementedError and
\* return nothing.
C9_UnknownPassesUnimplementedRaises ==
    (NormalCall /\ LoopReached) =>
        /\ \A n \in NonNull(last.kw) :
              KindOf(last.kw[n].k) \notin DOMAIN targets(last.pre.cls) =>
                  /\ \A c \in DOMAIN last.calls :
                        last.calls[c].key = last.kw[n].k => last.calls[c].fn = "identity"
                  /\ last.status = "ok" => last.out[n] = last.kw[n]
        /\ Unimplemented # {} => (last.status = "NotImplementedError" /\ last.out = <<>>)
        /\ Unimplemented = {} => last.status = "ok"

\* a concrete DualTransform subclass without apply_to_bbox is called with a
\* box and with the container, whose key is in no capability table
C9_Witness ==
    /\ NormalCall /\ LoopReached /\ last.pre.cls = "DualSub"
    /\ Unimplemented # {} /\ last.status = "NotImplementedError"
    /\ \E c \in DOMAIN last.calls : last.calls[c].fn = "apply_to_bboxes"

\* C10: a dispatch with parameters that returns has the keys of the call data,
\* in their order, and None for every key whose value is None; no handler is
\* invoked for a None value; a dispatch with params = None returns the call
\* data unchanged.
C10_DispatchKeepsKeysAndNone ==
    /\ last.op = "apply_with_params" =>
          /\ last.prm = NoneP =>
                (last.status = "ok" /\ last.out = last.kw /\ last.calls = <<>>)
          /\ (last.prm # NoneP /\ last.status = "ok") =>
                /\ Len(last.out) = Len(last.kw)
                /\ \A n \in DOMAIN last.kw :
                      /\ last.out[n].k = last.kw[n].k
                      /\ last.kw[n].v = NoneV => last.out[n].v = NoneV
          /\ \A c \in DOMAIN last.calls : last.calls[c].arg # NoneV
    /\ (IsCall /\ last.dispatched) =>
          /\ last.status = "ok" =>
                /\ Len(last.out) = Len(last.kw)
                /\ \A n \in DOMAIN last.kw :
                      /\ last.out[n].k = last.kw[n].k
                      /\ last.kw[n].v = NoneV => last.out[n].v = NoneV
          /\ \A c \in DOMAIN last.calls : last.calls[c].arg # NoneV

\* a direct dispatch with parameters over a bundle holding a None-valued mask
C10_Witness ==
    /\ last.op = "apply_with_params" /\ last.prm # NoneP /\ last.status = "ok"
    /\ \E n \in DOMAIN last.kw : last.kw[n].v = NoneV /\ last.out[n].v = NoneV
    /\ Len(last.calls) = Len(last.kw) - 1

\* the per-item transform a list handler maps over its items
PerItem(fn) ==
    CASE fn = "apply_to_bboxes"    -> "apply_to_bbox"
      [] fn = "apply_to_keypoints" -> "apply_to_keypoint"
      [] fn = "reverse_bboxes"     -> "reverse_bbox"
      [] fn = "reverse_keypoints"  -> "reverse_keypoint"

\* C11: apply_to_bboxes, apply_to_keypoints, reverse_bboxes and
\* reverse_keypoints return, when they return, a list of the length of their
\* input; item n of the output is made from item n of the input: the per-item
\* transform was handed the first four fields only, and the fields after the
\* fourth are those of the input item, unchanged.
C11_PayloadPreserved ==
    (last.op = "handler" /\ last.status = "ok") =>
        /\ last.out.t = "list"
        /\ Len(last.out.items) = Len(last.arg.items)
        /\ \A n \in DOMAIN last.arg.items :
              LET item == last.arg.items[n]
                  res == last.out.items[n]
              IN  /\ Len(res) = Len(item)
                  /\ Tail4(res) = Tail4(item)
                  /\ IF last.pre.cls = "NoOp"
                     THEN Head4(res) = Head4(item)
                     ELSE \A m \in 1..4 :
                            res[m] = Coords(PerItem(last.fn), Head4(item), last.prm)[m]

\* reverse_keypoints of an invertible transform returned three keypoints, the
\* first with a payload of two fields
C11_Witness ==
    /\ last.op = "handler" /\ last.status = "ok" /\ last.fn = "reverse_keypoints"
    /\ last.pre.cls = "DualSubGeom"
    /\ Len(last.out.items) = 3
    /\ Tail4(last.out.items[1]) = <<9, 7>>
    /\ last.out.items[1][1].arg = <<5, 6, 7, 8>>

\* reverse was called with params that hold the reverse arguments
IsReverse ==
    /\ last.op = "reverse"
    /\ "params" \in DOMAIN last.prm
    /\ last.pre.save_key \in DOMAIN last.prm["params"]

\* C12 as stated: reverse of a NoOp instance returns, for data whose keys are
\* among image, mask, masks, bboxes and keypoints, every non-null value as it
\* was given, and raises nothing.
C12_NoOpReverseIsIdentity ==
    (IsReverse /\ last.pre.cls = "NoOp"
        /\ Keys(last.kw) \subseteq {"image", "mask", "masks", "bboxes", "keypoints"}) =>
        /\ last.status = "ok"
        /\ last.out = last.kw

\* C13: a call given a positional argument raises KeyError in every mode,
\* whatever p, the overrides and the data are: no draw is taken, no parameters
\* are generated, no handler is invoked, nothing is returned, and the replay
\* container and every field of the instance are as they were.
C13_PositionalRejectedAtOnce ==
    (IsCall /\ last.args) =>
        /\ last.status = "KeyError" /\ last.out = <<>>
        /\ ~last.drawn /\ ~last.gen_called /\ ~last.dep_called
        /\ last.generated = NoneP
        /\ last.calls = <<>> /\ ~last.dispatched
        /\ ~last.stored /\ container = last.cbefore
        /\ self[last.inst] = last.pre

\* a replaying, deterministic instance restored as applied, with a record in
\* the container, is called with a positional argument and force_apply
C13_Witness ==
    /\ IsCall /\ last.args /\ last.status = "KeyError"
    /\ last.pre.replay_mode /\ last.pre.applied_in_replay /\ last.pre.deterministic
    /\ last.force_apply /\ last.has_container
    /\ last.inst \in DOMAIN container
    /\ Len(last.kw) >= 3

\* a key named by targets_as_params of the called instance is not in the call data
MissingTarget ==
    \E n \in DOMAIN targets_as_params(last.pre.cls) :
        targets_as_params(last.pre.cls)[n] \notin Keys(last.kw)

\* C14 as stated: every call with named data in which a key of
\* targets_as_params is absent fails with AssertionError, before
\* get_params_dependent_on_targets, any record and any handler.
C14_MissingTargetAlwaysFails ==
    (IsCall /\ ~last.args /\ MissingTarget) =>
        /\ last.status = "AssertionError"
        /\ ~last.dep_called /\ ~last.stored /\ last.calls = <<>>

\* C14 amended: a call outside replay mode whose gate fires, in which a key
\* of targets_as_params is absent, raises AssertionError after get_params and
\* before get_params_dependent_on_targets is called, before any record is
\* written and before any handler is invoked; a call whose gate does not fire
\* returns its data without looking for the key.
C14_MissingTargetFailsWhenFiring ==
    (NormalCall /\ MissingTarget) =>
        /\ last.gen_called =>
              /\ last.status = "AssertionError" /\ last.out = <<>>
              /\ ~last.dep_called /\ last.generated = NoneP
              /\ ~last.stored /\ container = last.cbefore
              /\ last.calls = <<>> /\ ~last.dispatched
        /\ ~last.gen_called =>
              /\ last.status = "ok" /\ last.out = last.kw

\* a deterministic instance that declares targets_as_params = ["mask"] fires
\* on a call with an image, the container, and no mask
C14_Witness ==
    /\ NormalCall /\ last.pre.cls = "DualSubTargets" /\ MissingTarget
    /\ last.pre.deterministic /\ last.has_container
    /\ last.gen_called /\ last.status = "AssertionError"
    /\ "image" \in Keys(last.kw)

\* C15: the save_key of an instance is never "params", after construction and
\* after any sequence of set_deterministic calls and transform calls;
\* set_deterministic(flag, "params") raises and leaves deterministic and
\* save_key (and every other field) as they were, and with any other key it
\* sets both.
C15_SaveKeyNeverParams ==
    /\ \A i \in Inst : self[i].save_key # "params"
    /\ last.op = "set_deterministic" =>
          IF last.key = "params"
          THEN /\ last.status = "AssertionError"
               /\ self[last.inst] = last.pre
          ELSE /\ last.status = "ok"
               /\ self[last.inst].deterministic = last.flag
               /\ self[last.inst].save_key = last.key
    /\ IsCall => self[last.inst].save_key = last.pre.save_key

\* a deterministic instance whose save_key is "saved" has just refused
\* set_deterministic(False, "params")
C15_Witness ==
    /\ last.op = "set_deterministic" /\ last.key = "params" /\ ~last.flag
    /\ last.status = "AssertionError"
    /\ last.pre.deterministic /\ last.pre.save_key = "saved"
    /\ self[last.inst].deterministic /\ self[last.inst].save_key = "saved"
    /\ container # EmptyMap

\* C16 as stated: a call outside replay mode takes a draw for the gate exactly
\* when neither always_apply nor force_apply is true.
C16_DrawOnlyWithoutOverride ==
    NormalCall => (last.drawn <=> ~(last.pre.always_apply \/ last.force_apply))

\* C16 amended: every call with named data outside replay mode, deterministic
\* or not, takes one draw for the gate, with an override as well as without;
\* with an override the call fires whatever the draw is.
C16_DrawOnEveryGate ==
    NormalCall =>
        /\ last.drawn /\ last.draw \in 0..(Scale - 1)
        /\ (last.pre.always_apply \/ last.force_apply) => last.gen_called

\* a deterministic always_apply instance called with force_apply took a draw
\* that is not below p, and fired
C16_Witness ==
    /\ NormalCall /\ last.pre.always_apply /\ last.force_apply /\ last.pre.deterministic
    /\ last.drawn /\ last.draw >= last.pre.p /\ last.gen_called /\ last.status = "ok"

\* the names the dependency table of the called instance lists for a kind
DependenciesOfKind(kind) ==
    LET table == target_dependence(last.pre.cls)
    IN  IF kind \in DOMAIN table THEN {table[kind][d] : d \in DOMAIN table[kind]} ELSE {}

\* C17 as stated: in every dispatch, the handler of a non-null key is handed,
\* for every name the dependency table lists for the key's alias-resolved
\* kind, the value of that name in the call data, for aliased keys as for keys
\* named by the kind.
C17_DependenciesByKind ==
    (IsCall /\ last.dispatched) =>
        \A n \in DOMAIN last.calls :
            \A name \in DependenciesOfKind(KindOf(last.calls[n].key)) :
                /\ name \in DOMAIN last.calls[n].params
                /\ last.calls[n].params[name] = Get(last.kw, name)

\* an application: a call that dispatched, or apply_with_params with params
Application ==
    \/ IsCall /\ last.dispatched
    \/ last.op = "apply_with_params" /\ last.prm # NoneP

\* C18: in every application, in a normal, deterministic or replaying call or
\* through apply_with_params, every handler is handed rows and cols equal to
\* the shape of the image of the current call, whatever rows and cols the
\* parameters held before.
C18_GeometryOfCurrentImage ==
    Application =>
        \A n \in DOMAIN last.calls :
            /\ "image" \in Keys(last.kw)
            /\ {"rows", "cols"} \subseteq DOMAIN last.calls[n].params
            /\ last.calls[n].params["rows"] = Get(last.kw, "image").rows
            /\ last.calls[n].params["cols"] = Get(last.kw, "image").cols

\* a replaying instance whose params hold the rows and cols of an earlier
\* image is called with an image of another shape
C18_Witness ==
    /\ ReplayCall /\ last.dispatched /\ last.status = "ok" /\ last.calls # <<>>
    /\ "rows" \in DOMAIN last.pre.params
    /\ last.pre.params["rows"] # Get(last.kw, "image").rows
    /\ last.calls[1].params["rows"] = Get(last.kw, "image").rows

\* the handler the reverse capability table gives a kind, the identity when it has none
ReverseHandlerOfKind(c, kind) ==
    IF kind \in DOMAIN targets_reverse(c) THEN targets_reverse(c)[kind] ELSE "identity"

\* the forward handlers whose results are values computed by a subclass
ForwardNames == {"apply", "apply_to_bbox", "apply_to_keypoint"}

\* the value was computed by a forward handler, or holds an item that was
ComputedForward(v) ==
    \/ v.t = "out" /\ v.fn \in ForwardNames
    \/ v.t = "arrs" /\ \E n \in DOMAIN v.items :
                          v.items[n].t = "out" /\ v.items[n].fn \in ForwardNames

\* C19 as stated: reverse of a DualTransform returns None for a null key and
\* hands every other key to the handler the reverse capability table gives its
\* alias-resolved kind; for the kind masks the result is the list of
\* reverse_mask applied to each mask, in order; no value of the result was
\* computed by a forward handler.
C19_ReverseUsesReverseHandlers ==
    (IsReverse /\ last.pre.cls \in DualClasses /\ last.status = "ok") =>
        /\ Len(last.out) = Len(last.kw)
        /\ \A n \in DOMAIN last.kw :
              IF last.kw[n].v = NoneV
              THEN last.out[n].v = NoneV
              ELSE \E c \in DOMAIN last.calls :
                      /\ last.calls[c].key = last.kw[n].k
                      /\ last.calls[c].fn
                            = ReverseHandlerOfKind(last.pre.cls, KindOf(last.kw[n].k))
                      /\ KindOf(last.kw[n].k) = "masks" =>
                            Ok(last.out[n].v)
                                = reverse_masks_by_reverse_mask(last.pre.cls, last.kw[n].v,
                                                                last.calls[c].params)
                      /\ ~ComputedForward(last.out[n].v)

\* C20 as stated: a deterministic call that raises leaves the replay container
\* with the entries it had before the call.
C20_RaisingCallRecordsNothing ==
    (NormalCall /\ last.pre.deterministic /\ last.status # "ok") =>
        container = last.cbefore

====
